---- MODULE Spec2Model ----
(***************************************************************************)
(* Model of the owner-scoped game-state engine of src/app.py: the players  *)
(* and owner_sessions tables, the expiry sweep, the session touch and the  *)
(* request handlers built on them.                                         *)
(*                                                                         *)
(* Datastore semantics the model relies on (python sqlite3, one            *)
(* connection per request, default isolation level):                       *)
(*  - every handler's first statement is the DELETE of                     *)
(*    prune_expired_games, which opens a write transaction; writers are    *)
(*    mutually exclusive, so everything a handler does from there to its   *)
(*    db.commit() is one atomic step;                                      *)
(*  - a handler that returns without db.commit() loses its pending         *)
(*    writes when close_db closes the connection (rollback);               *)
(*  - update_score commits, so the two turn handlers run two               *)
(*    transactions: the second one persists the new current player.        *)
(***************************************************************************)
EXTENDS Integers, Sequences, FiniteSets

VARIABLES
    players,         \* table players: set of rows [id, owner_id, name, score]
    owner_sessions,  \* table owner_sessions: owner_id -> row
    seq,             \* sqlite_sequence of players (AUTOINCREMENT high-water mark)
    now,             \* int(time.time())
    conn,            \* per connection: a turn request between two of its transactions
    turns,           \* per owner: the turns completed since the last start/end/sweep
                     \* (a log kept by TurnSpec only)
    added            \* the ids of the rows inserted into players, in insertion order

vars == <<players, owner_sessions, seq, now, conn, turns, added>>

----------------------------------------------------------------------------
(* Bounds of the model *)

MaxId == 3
MaxTime == 2
MaxScore == 1

(* Configuration: GAME_TTL_DAYS is read from the environment, 30 when unset *)
GAME_TTL_DAYS == 30
GAME_TTL_SECONDS == GAME_TTL_DAYS * 24 * 60 * 60

Owners == {"a", "b"}
Conns == {1, 2}

\* SQL NULL / Python None for current_player_id (no row id or URL id is negative)
None == -1

\* request.form values, as the raw strings the handlers parse; owner "a" sends
\* three names (and a blank one), owner "b" one that "a" uses too
RawNames(o) == IF o = "a" THEN {"x", " y", "z ", " "} ELSE {"x"}
RawStartingScores == {"0", "1", "abc"}
RawDeltas == {"-1", "1", "abc"}

----------------------------------------------------------------------------
(* Parsing of form values *)

\* str.strip() of the name field
strip(raw) ==
    CASE raw = " " -> ""
      [] raw = " x" -> "x"
      [] raw = " y" -> "y"
      [] raw = "z " -> "z"
      [] OTHER -> raw

\* int(raw): ok = FALSE stands for ValueError
int(raw) ==
    CASE raw = "-1" -> [ok |-> TRUE, value |-> -1]
      [] raw = "0" -> [ok |-> TRUE, value |-> 0]
      [] raw = "1" -> [ok |-> TRUE, value |-> 1]
      [] OTHER -> [ok |-> FALSE, value |-> 0]

----------------------------------------------------------------------------
(* The datastore as a value: what a transaction reads and writes *)

DB ==
    [players |-> players, owner_sessions |-> owner_sessions, seq |-> seq]

\* VALUES (?, ?, 0, NULL) of the owner_sessions inserts
NewSession(t) ==
    [last_seen_at |-> t, game_started |-> FALSE, current_player_id |-> None]

\* SELECT owner_id FROM owner_sessions WHERE last_seen_at < ?
ExpiredOwners(db, cutoff) ==
    {o \in DOMAIN db.owner_sessions : db.owner_sessions[o].last_seen_at < cutoff}

\* Faulty variant: the sweep deletes the expired session rows and leaves the
\* players of those owners behind.
prune_sessions_only(db, t) ==
    LET cutoff == t - GAME_TTL_SECONDS
        keep == DOMAIN db.owner_sessions \ ExpiredOwners(db, cutoff)
    IN  [db EXCEPT !.owner_sessions = [o \in keep |-> db.owner_sessions[o]]]

\* Faulty variant: the comparison is <=, so a session at the cutoff is swept.
prune_at_cutoff(db, t) ==
    LET cutoff == t - GAME_TTL_SECONDS
        gone == {o \in DOMAIN db.owner_sessions :
                    db.owner_sessions[o].last_seen_at <= cutoff}
        keep == DOMAIN db.owner_sessions \ gone
    IN  [db EXCEPT !.players = {p \in @ : p.owner_id \notin gone},
                   !.owner_sessions = [o \in keep |-> db.owner_sessions[o]]]

\* Faulty variant: the sweep deletes the players of the expired owners and
\* leaves their session rows, game state included.
prune_players_only(db, t) ==
    LET cutoff == t - GAME_TTL_SECONDS
    IN  [db EXCEPT !.players =
            {p \in @ : p.owner_id \notin ExpiredOwners(db, cutoff)}]

prune_expired_games(db, t) ==
    LET cutoff == t - GAME_TTL_SECONDS
        d1 == [db EXCEPT !.players =
                  {p \in @ : p.owner_id \notin ExpiredOwners(db, cutoff)}]
        keep == DOMAIN d1.owner_sessions \ ExpiredOwners(d1, cutoff)
    IN  [d1 EXCEPT !.owner_sessions = [o \in keep |-> d1.owner_sessions[o]]]

touch_owner_session(db, owner_id, t) ==
    IF owner_id \in DOMAIN db.owner_sessions
    THEN [db EXCEPT !.owner_sessions[owner_id].last_seen_at = t]
    ELSE [db EXCEPT !.owner_sessions =
             [o \in DOMAIN @ \cup {owner_id} |->
                 IF o = owner_id THEN NewSession(t) ELSE @[o]]]

\* Returns the row and the datastore (the row is inserted when missing; every
\* caller has touched the owner in the same transaction, so it never is).
get_owner_state(db, owner_id, t) ==
    IF owner_id \in DOMAIN db.owner_sessions
    THEN [db |-> db, state |-> db.owner_sessions[owner_id]]
    ELSE [db |-> [db EXCEPT !.owner_sessions =
                     [o \in DOMAIN @ \cup {owner_id} |->
                         IF o = owner_id THEN NewSession(t) ELSE @[o]]],
          state |-> NewSession(t)]

\* ORDER BY id ASC over a set of rows
RECURSIVE OrderById(_)
OrderById(rows) ==
    IF rows = {} THEN <<>>
    ELSE LET first == CHOOSE p \in rows : \A q \in rows : p.id <= q.id
         IN  <<first>> \o OrderById(rows \ {first})

\* SELECT id, name, score FROM players WHERE owner_id = ? ORDER BY id ASC
get_players_for_owner(db, owner_id) ==
    OrderById({[id |-> p.id, name |-> p.name, score |-> p.score] :
                  p \in {q \in db.players : q.owner_id = owner_id}})

\* list.index(x): position of the first occurrence
IndexOf(s, x) ==
    CHOOSE i \in 1..Len(s) : s[i] = x /\ \A j \in 1..(i - 1) : s[j] # x

\* Faulty variant: no wrap-around; after the last player there is no next one.
get_next_player_id_no_wrap(plist, current_player_id) ==
    IF plist = <<>> THEN None
    ELSE IF current_player_id = None THEN plist[1].id
    ELSE LET player_ids == [i \in 1..Len(plist) |-> plist[i].id]
         IN  IF \A i \in 1..Len(player_ids) : player_ids[i] # current_player_id
             THEN plist[1].id
             ELSE LET next_index == IndexOf(player_ids, current_player_id)
                  IN  IF next_index < Len(player_ids)
                      THEN player_ids[next_index + 1] ELSE None

\* Faulty variant: the turn always goes to the first player.
get_next_player_id_first(plist, current_player_id) ==
    IF plist = <<>> THEN None ELSE plist[1].id

get_next_player_id(plist, current_player_id) ==
    IF plist = <<>> THEN None
    ELSE IF current_player_id = None THEN plist[1].id
    ELSE LET player_ids == [i \in 1..Len(plist) |-> plist[i].id]
         IN  IF \A i \in 1..Len(player_ids) : player_ids[i] # current_player_id
             THEN plist[1].id
             ELSE LET current_index == IndexOf(player_ids, current_player_id) - 1
                      next_index == (current_index + 1) % Len(player_ids)
                  IN  player_ids[next_index + 1]

\* Faulty variant: the UPDATE misses "name = ?" and scores every player of
\* the owner.
AddToScore_every_player(db, player_name, delta, owner_id) ==
    [db EXCEPT !.players =
        {IF p.owner_id = owner_id
         THEN [p EXCEPT !.score = @ + delta] ELSE p : p \in @}]

\* UPDATE players SET score = score + ? WHERE name = ? AND owner_id = ?
AddToScore(db, player_name, delta, owner_id) ==
    [db EXCEPT !.players =
        {IF p.name = player_name /\ p.owner_id = owner_id
         THEN [p EXCEPT !.score = @ + delta] ELSE p : p \in @}]

\* update_score: sweep, touch, add delta by name, commit; updated = rowcount > 0
update_score(db, player_name, delta, owner_id, t) ==
    LET d1 == touch_owner_session(prune_expired_games(db, t), owner_id, t)
    IN  [db |-> AddToScore(d1, player_name, delta, owner_id),
         updated |-> \E p \in d1.players :
                        p.name = player_name /\ p.owner_id = owner_id]

\* UPDATE owner_sessions SET current_player_id = ? WHERE owner_id = ?
SetCurrentPlayer(db, owner_id, player_id) ==
    IF owner_id \in DOMAIN db.owner_sessions
    THEN [db EXCEPT !.owner_sessions[owner_id].current_player_id = player_id]
    ELSE db

\* UPDATE owner_sessions SET game_started = ?, current_player_id = ? WHERE owner_id = ?
SetGameState(db, owner_id, started, player_id) ==
    IF owner_id \in DOMAIN db.owner_sessions
    THEN [db EXCEPT !.owner_sessions[owner_id].game_started = started,
                    !.owner_sessions[owner_id].current_player_id = player_id]
    ELSE db

----------------------------------------------------------------------------
(* The request handlers as functions of the datastore.  Each returns the  *)
(* datastore as its transaction leaves it, whether it committed, and the   *)
(* message it flashed.                                                      *)

Ids(plist) ==
    {plist[i].id : i \in 1..Len(plist)}

\* what index() hands to render_template
View(plist, game_started, current_player_id) ==
    [players |-> plist,
     game_started |-> game_started,
     current_player |-> IF current_player_id \in Ids(plist)
                        THEN current_player_id ELSE None]

NoView ==
    View(<<>>, FALSE, None)

Reply(db, commit, flash) ==
    [db |-> db, commit |-> commit, flash |-> flash, view |-> NoView]

index(db, owner_id, t) ==
    LET d1 == touch_owner_session(prune_expired_games(db, t), owner_id, t)
        plist == get_players_for_owner(d1, owner_id)
        s == get_owner_state(d1, owner_id, t)
        game_started == s.state.game_started
        repair == /\ game_started
                  /\ s.state.current_player_id \notin Ids(plist)
                  /\ plist # <<>>
        current_player_id == IF repair THEN plist[1].id
                             ELSE s.state.current_player_id
        d2 == IF repair THEN SetCurrentPlayer(s.db, owner_id, current_player_id)
              ELSE s.db
    IN  [db |-> d2, commit |-> TRUE, flash |-> "",
         view |-> View(plist, game_started, current_player_id)]

\* Faulty variant: the id column without AUTOINCREMENT; the new row takes the
\* highest id of the table plus one, which reuses the id of a removed row.
InsertPlayer_rowid(db, owner_id, name, score) ==
    LET top == IF db.players = {} THEN 0
               ELSE CHOOSE i \in {p.id : p \in db.players} :
                        \A p \in db.players : p.id <= i
    IN  [db EXCEPT !.players = @ \cup {[id |-> top + 1, owner_id |-> owner_id,
                                        name |-> name, score |-> score]},
                   !.seq = @ + 1]

\* INSERT INTO players (owner_id, name, score): AUTOINCREMENT takes seq + 1
InsertPlayer(db, owner_id, name, score) ==
    [db EXCEPT !.players = @ \cup {[id |-> db.seq + 1, owner_id |-> owner_id,
                                    name |-> name, score |-> score]},
               !.seq = @ + 1]

\* Faulty variant: names are unique across the table (UNIQUE(name), as in the
\* schema before owner_id), so a name taken by any owner is refused.
add_player_unique_name(db, owner_id, raw_name, raw_starting_score, t) ==
    LET name == strip(raw_name)
        starting_score == int(raw_starting_score)
        d1 == touch_owner_session(prune_expired_games(db, t), owner_id, t)
        s == get_owner_state(d1, owner_id, t)
    IN  IF name = ""
        THEN Reply(db, FALSE, "Player name cannot be empty.")
        ELSE IF ~starting_score.ok
        THEN Reply(db, FALSE, "Starting score must be a whole number.")
        ELSE IF s.state.game_started
        THEN Reply(s.db, FALSE, "Cannot add players after the game has started.")
        ELSE IF \E p \in s.db.players : p.name = name
        THEN Reply(s.db, FALSE, "That player already exists.")
        ELSE Reply(InsertPlayer(s.db, owner_id, name, starting_score.value),
                   TRUE, "Added player")

add_player(db, owner_id, raw_name, raw_starting_score, t) ==
    LET name == strip(raw_name)
        starting_score == int(raw_starting_score)
        d1 == touch_owner_session(prune_expired_games(db, t), owner_id, t)
        s == get_owner_state(d1, owner_id, t)
    IN  IF name = ""
        THEN Reply(db, FALSE, "Player name cannot be empty.")
        ELSE IF ~starting_score.ok
        THEN Reply(db, FALSE, "Starting score must be a whole number.")
        ELSE IF s.state.game_started
        THEN Reply(s.db, FALSE, "Cannot add players after the game has started.")
        ELSE IF \E p \in s.db.players : p.owner_id = owner_id /\ p.name = name
        THEN Reply(s.db, FALSE, "That player already exists.")
        ELSE Reply(InsertPlayer(s.db, owner_id, name, starting_score.value),
                   TRUE, "Added player")

\* Faulty variant: no check for an empty player list; the game starts without
\* a current player.
start_game_without_players(db, owner_id, t) ==
    LET d1 == touch_owner_session(prune_expired_games(db, t), owner_id, t)
        plist == get_players_for_owner(d1, owner_id)
    IN  Reply(SetGameState(d1, owner_id, TRUE,
                           IF plist = <<>> THEN None ELSE plist[1].id),
              TRUE, "Game started.")

\* Variant that guards against a second start: a game already started keeps
\* its current player.
start_game_once(db, owner_id, t) ==
    LET d1 == touch_owner_session(prune_expired_games(db, t), owner_id, t)
        plist == get_players_for_owner(d1, owner_id)
    IN  IF plist = <<>>
        THEN Reply(d1, FALSE, "Add at least one player before starting the game.")
        ELSE IF d1.owner_sessions[owner_id].game_started
        THEN Reply(d1, TRUE, "Game started.")
        ELSE Reply(SetGameState(d1, owner_id, TRUE, plist[1].id),
                   TRUE, "Game started.")

\* Faulty variant: the game starts with the last player of the list.
start_game_with_last(db, owner_id, t) ==
    LET d1 == touch_owner_session(prune_expired_games(db, t), owner_id, t)
        plist == get_players_for_owner(d1, owner_id)
    IN  IF plist = <<>>
        THEN Reply(d1, FALSE, "Add at least one player before starting the game.")
        ELSE Reply(SetGameState(d1, owner_id, TRUE, plist[Len(plist)].id),
                   TRUE, "Game started.")

start_game(db, owner_id, t) ==
    LET d1 == touch_owner_session(prune_expired_games(db, t), owner_id, t)
        plist == get_players_for_owner(d1, owner_id)
    IN  IF plist = <<>>
        THEN Reply(d1, FALSE, "Add at least one player before starting the game.")
        ELSE Reply(SetGameState(d1, owner_id, TRUE, plist[1].id),
                   TRUE, "Game started.")

\* Faulty variant: ending the game leaves current_player_id as it was.
end_game_keeps_current(db, owner_id, t) ==
    LET d1 == touch_owner_session(prune_expired_games(db, t), owner_id, t)
    IN  Reply([d1 EXCEPT !.owner_sessions[owner_id].game_started = FALSE],
              TRUE, "Game ended.")

end_game(db, owner_id, t) ==
    LET d1 == touch_owner_session(prune_expired_games(db, t), owner_id, t)
    IN  Reply(SetGameState(d1, owner_id, FALSE, None), TRUE, "Game ended.")

\* Faulty variant: no check of game_started before the DELETE.
delete_player_unguarded(db, owner_id, player_id, t) ==
    LET d1 == touch_owner_session(prune_expired_games(db, t), owner_id, t)
        s == get_owner_state(d1, owner_id, t)
        rows == {p \in s.db.players : p.id = player_id /\ p.owner_id = owner_id}
    IN  IF rows = {}
        THEN Reply(s.db, FALSE, "Player not found.")
        ELSE Reply([s.db EXCEPT !.players = @ \ rows], TRUE, "Removed")

delete_player(db, owner_id, player_id, t) ==
    LET d1 == touch_owner_session(prune_expired_games(db, t), owner_id, t)
        s == get_owner_state(d1, owner_id, t)
        rows == {p \in s.db.players : p.id = player_id /\ p.owner_id = owner_id}
    IN  IF s.state.game_started
        THEN Reply(s.db, FALSE, "Cannot remove players after the game has started.")
        ELSE IF rows = {}
        THEN Reply(s.db, FALSE, "Player not found.")
        ELSE Reply([s.db EXCEPT !.players = @ \ rows], TRUE, "Removed")

\* Faulty variant: the UPDATE misses "WHERE owner_id = ?".
reset_scores_every_owner(db, owner_id, t) ==
    LET d1 == touch_owner_session(prune_expired_games(db, t), owner_id, t)
    IN  Reply([d1 EXCEPT !.players = {[p EXCEPT !.score = 0] : p \in @}],
              TRUE, "All scores reset to 0.")

\* Faulty variant: resetting the scores also resets the game state.
reset_scores_and_game(db, owner_id, t) ==
    LET d1 == touch_owner_session(prune_expired_games(db, t), owner_id, t)
    IN  Reply(SetGameState([d1 EXCEPT !.players =
                               {IF p.owner_id = owner_id THEN [p EXCEPT !.score = 0] ELSE p
                                   : p \in @}],
                           owner_id, FALSE, None),
              TRUE, "All scores reset to 0.")

reset_scores(db, owner_id, t) ==
    LET d1 == touch_owner_session(prune_expired_games(db, t), owner_id, t)
    IN  Reply([d1 EXCEPT !.players =
                  {IF p.owner_id = owner_id THEN [p EXCEPT !.score = 0] ELSE p
                      : p \in @}],
              TRUE, "All scores reset to 0.")

----------------------------------------------------------------------------
(* The two turn handlers.  update_score commits, so each is a first        *)
(* transaction (validate, add the delta) and a second one (persist the     *)
(* next player).  go = the handler continues past its first transaction.   *)

Stop(db, commit, flash) ==
    [db |-> db, commit |-> commit, flash |-> flash, go |-> FALSE,
     acting |-> None, plist |-> <<>>]

\* Faulty variant: no check that the named player is the current player.
update_score_route_begin_any_player(db, owner_id, player_id, raw_delta, t) ==
    LET delta == int(raw_delta)
        d1 == touch_owner_session(prune_expired_games(db, t), owner_id, t)
        s == get_owner_state(d1, owner_id, t)
        rows == {p \in s.db.players : p.id = player_id /\ p.owner_id = owner_id}
        row == CHOOSE p \in rows : TRUE
    IN  IF ~delta.ok
        THEN Stop(db, FALSE, "Score change must be a whole number.")
        ELSE IF ~s.state.game_started
        THEN Stop(s.db, FALSE, "Start the game before taking turns.")
        ELSE IF rows = {}
        THEN Stop(s.db, FALSE, "Player not found.")
        ELSE [db |-> update_score(s.db, row.name, delta.value, owner_id, t).db,
              commit |-> TRUE, flash |-> "", go |-> TRUE,
              acting |-> player_id, plist |-> <<>>]

\* update_score_route up to the commit inside update_score
update_score_route_begin(db, owner_id, player_id, raw_delta, t) ==
    LET delta == int(raw_delta)
        d1 == touch_owner_session(prune_expired_games(db, t), owner_id, t)
        s == get_owner_state(d1, owner_id, t)
        rows == {p \in s.db.players : p.id = player_id /\ p.owner_id = owner_id}
        row == CHOOSE p \in rows : TRUE
    IN  IF ~delta.ok
        THEN Stop(db, FALSE, "Score change must be a whole number.")
        ELSE IF ~s.state.game_started
        THEN Stop(s.db, FALSE, "Start the game before taking turns.")
        ELSE IF s.state.current_player_id # player_id
        THEN Stop(s.db, FALSE, "It is not that player's turn.")
        ELSE IF rows = {}
        THEN Stop(s.db, FALSE, "Player not found.")
        ELSE [db |-> update_score(s.db, row.name, delta.value, owner_id, t).db,
              commit |-> TRUE, flash |-> "", go |-> TRUE,
              acting |-> player_id, plist |-> <<>>]

\* Faulty variant: no fallback to the first player when the reference does
\* not resolve.
update_turn_score_begin_no_fallback(db, owner_id, raw_delta, t) ==
    LET delta == int(raw_delta)
        d1 == touch_owner_session(prune_expired_games(db, t), owner_id, t)
        s == get_owner_state(d1, owner_id, t)
        plist == get_players_for_owner(s.db, owner_id)
        found == {i \in 1..Len(plist) : plist[i].id = s.state.current_player_id}
        current_player == plist[CHOOSE i \in found : \A j \in found : i <= j]
        u == update_score(s.db, current_player.name, delta.value, owner_id, t)
    IN  IF ~delta.ok
        THEN Stop(db, FALSE, "Score change must be a whole number.")
        ELSE IF ~s.state.game_started
        THEN Stop(s.db, FALSE, "Start the game before taking turns.")
        ELSE IF plist = <<>>
        THEN Stop(s.db, FALSE, "No players found.")
        ELSE IF found = {}
        THEN Stop(s.db, FALSE, "Current player not found.")
        ELSE [db |-> u.db, commit |-> TRUE, flash |-> "", go |-> TRUE,
              acting |-> current_player.id, plist |-> plist]

\* update_turn_score up to the commit inside update_score
update_turn_score_begin(db, owner_id, raw_delta, t) ==
    LET delta == int(raw_delta)
        d1 == touch_owner_session(prune_expired_games(db, t), owner_id, t)
        s == get_owner_state(d1, owner_id, t)
        plist == get_players_for_owner(s.db, owner_id)
        found == {i \in 1..Len(plist) : plist[i].id = s.state.current_player_id}
        current_player == IF found = {} THEN plist[1]
                          ELSE plist[CHOOSE i \in found : \A j \in found : i <= j]
        u == update_score(s.db, current_player.name, delta.value, owner_id, t)
    IN  IF ~delta.ok
        THEN Stop(db, FALSE, "Score change must be a whole number.")
        ELSE IF ~s.state.game_started
        THEN Stop(s.db, FALSE, "Start the game before taking turns.")
        ELSE IF plist = <<>>
        THEN Stop(s.db, FALSE, "No players found.")
        ELSE IF ~u.updated
        THEN Stop(u.db, TRUE, "Current player not found.")
        ELSE [db |-> u.db, commit |-> TRUE, flash |-> "", go |-> TRUE,
              acting |-> current_player.id, plist |-> plist]

\* the tail of both handlers: compute the next player, persist it, commit
persist_next_player(db, owner_id, plist, acting) ==
    LET next_player_id == get_next_player_id(plist, acting)
    IN  Reply(SetCurrentPlayer(db, owner_id, next_player_id), TRUE,
              IF next_player_id \in Ids(plist)
              THEN "Updated. Next."
              ELSE "Updated.")

\* The handlers run without another request in between
update_score_route(db, owner_id, player_id, raw_delta, t) ==
    LET b == update_score_route_begin(db, owner_id, player_id, raw_delta, t)
    IN  IF ~b.go THEN Reply(b.db, b.commit, b.flash)
        ELSE persist_next_player(b.db, owner_id,
                                 get_players_for_owner(b.db, owner_id), b.acting)

update_turn_score(db, owner_id, raw_delta, t) ==
    LET b == update_turn_score_begin(db, owner_id, raw_delta, t)
    IN  IF ~b.go THEN Reply(b.db, b.commit, b.flash)
        ELSE persist_next_player(b.db, owner_id, b.plist, b.acting)

----------------------------------------------------------------------------
(* State machine *)

PlayerIds == 1..MaxId

Idle ==
    [pc |-> "idle", owner_id |-> "", acting |-> None, plist |-> <<>>]

Init ==
    /\ players = {}
    /\ owner_sessions = [o \in {} |-> NewSession(0)]
    /\ seq = 0
    /\ now = 0
    /\ conn = [c \in Conns |-> Idle]
    /\ turns = [o \in Owners |-> <<>>]
    /\ added = <<>>

\* the model's bounds on ids and scores
WithinBounds(db) ==
    /\ db.seq <= MaxId
    /\ \A p \in db.players : 0 <= p.score /\ p.score <= MaxScore

\* the datastore after a transaction: its writes when it committed; when it
\* did not, close_db drops them
After(r) ==
    IF r.commit THEN r.db ELSE DB

\* the ids of the rows of db that the stored table does not hold, ascending
Inserted(db) ==
    LET rows == OrderById({p \in db.players : \A q \in players : q.id # p.id})
    IN  [i \in 1..Len(rows) |-> rows[i].id]

Store(r) ==
    /\ WithinBounds(r.db)
    /\ players' = After(r).players
    /\ owner_sessions' = After(r).owner_sessions
    /\ seq' = After(r).seq
    /\ added' = added \o Inserted(After(r))

current_of(owner_id) ==
    IF owner_id \in DOMAIN owner_sessions
    THEN owner_sessions[owner_id].current_player_id ELSE None

\* the last n entries of a log
LastN(log, n) ==
    IF Len(log) <= n THEN log ELSE SubSeq(log, Len(log) - n + 1, Len(log))

\* The log of an owner is emptied when a committed sweep removes the owner and
\* when the owner starts or ends its game; a completed turn is appended (who
\* was current before it, who acted).  It keeps as many turns as the owner
\* has players.
Logged(r, op, owner_id, done, acting) ==
    \E swept \in {IF r.commit THEN ExpiredOwners(DB, now - GAME_TTL_SECONDS) ELSE {}} :
        turns' = [o \in Owners |->
            IF o \in swept THEN <<>>
            ELSE IF o # owner_id THEN turns[o]
            ELSE IF r.commit /\ op \in {"start_game", "end_game"} THEN <<>>
            ELSE IF done
            THEN LastN(Append(turns[o], [before |-> current_of(o), actor |-> acting]),
                       Cardinality({p \in r.db.players : p.owner_id = o}))
            ELSE turns[o]]

\* a handler that runs without another request in between; log = keep the log
Serve(log, r, op, owner_id, done, acting) ==
    /\ Store(r)
    /\ IF log THEN Logged(r, op, owner_id, done, acting) ELSE UNCHANGED turns
    /\ UNCHANGED <<now, conn>>

\* int(time.time()) is observed one TTL apart: a session last seen one TTL ago
\* is at the cutoff and stays (last_seen_at < cutoff is strict), one last seen
\* two TTLs ago is swept
Tick ==
    /\ now < MaxTime * GAME_TTL_SECONDS
    /\ now' = now + GAME_TTL_SECONDS
    /\ UNCHANGED <<players, owner_sessions, seq, conn, turns, added>>

Index(log, o) ==
    \E r \in {index(DB, o, now)} : Serve(log, r, "index", o, FALSE, None)

AddPlayer(log, o, raw_name, raw_starting_score) ==
    \E r \in {add_player(DB, o, raw_name, raw_starting_score, now)} :
        Serve(log, r, "add_player", o, FALSE, None)

StartGame(log, o) ==
    \E r \in {start_game(DB, o, now)} : Serve(log, r, "start_game", o, FALSE, None)

EndGame(log, o) ==
    \E r \in {end_game(DB, o, now)} : Serve(log, r, "end_game", o, FALSE, None)

DeletePlayer(log, o, player_id) ==
    \E r \in {delete_player(DB, o, player_id, now)} :
        Serve(log, r, "delete_player", o, FALSE, None)

ResetScores(log, o) ==
    \E r \in {reset_scores(DB, o, now)} : Serve(log, r, "reset_scores", o, FALSE, None)

UpdateScoreRoute(log, o, player_id, raw_delta) ==
    \E r \in {update_score_route(DB, o, player_id, raw_delta, now)},
       b \in {update_score_route_begin(DB, o, player_id, raw_delta, now)} :
        Serve(log, r, "update_score", o, b.go, b.acting)

UpdateTurnScore(log, o, raw_delta) ==
    \E r \in {update_turn_score(DB, o, raw_delta, now)},
       b \in {update_turn_score_begin(DB, o, raw_delta, now)} :
        Serve(log, r, "update_turn_score", o, b.go, b.acting)

\* requests of all owners, served one at a time
Next ==
    \/ Tick
    \/ \E o \in Owners : Index(FALSE, o)
    \/ \E o \in Owners : \E n \in RawNames(o), sc \in RawStartingScores :
          AddPlayer(FALSE, o, n, sc)
    \/ \E o \in Owners : StartGame(FALSE, o)
    \/ \E o \in Owners : EndGame(FALSE, o)
    \/ \E o \in Owners, id \in PlayerIds : DeletePlayer(FALSE, o, id)
    \/ \E o \in Owners : ResetScores(FALSE, o)
    \/ \E o \in Owners, id \in PlayerIds, d \in RawDeltas :
          UpdateScoreRoute(FALSE, o, id, d)
    \/ \E o \in Owners, d \in RawDeltas : UpdateTurnScore(FALSE, o, d)

Spec == Init /\ [][Next]_vars

----------------------------------------------------------------------------
(* Requests of one owner served one at a time, with the log of its turns *)

LogOwner == "a"

TurnNext ==
    \/ Tick
    \/ Index(TRUE, LogOwner)
    \/ \E n \in RawNames(LogOwner), sc \in RawStartingScores :
          AddPlayer(TRUE, LogOwner, n, sc)
    \/ StartGame(TRUE, LogOwner)
    \/ EndGame(TRUE, LogOwner)
    \/ \E id \in PlayerIds : DeletePlayer(TRUE, LogOwner, id)
    \/ ResetScores(TRUE, LogOwner)
    \/ \E id \in PlayerIds, d \in RawDeltas : UpdateScoreRoute(TRUE, LogOwner, id, d)
    \/ \E d \in RawDeltas : UpdateTurnScore(TRUE, LogOwner, d)

TurnSpec == Init /\ [][TurnNext]_vars

----------------------------------------------------------------------------
(* Requests around the expiry of a session: the clock is read one second   *)
(* before, at, and one second after every multiple of the TTL.             *)

Instants ==
    {k * GAME_TTL_SECONDS + e : k \in 0..MaxTime, e \in {-1, 0, 1}}
        \cap 0..(MaxTime * GAME_TTL_SECONDS)

Pass ==
    /\ \E t \in Instants : t > now /\ now' = t
    /\ UNCHANGED <<players, owner_sessions, seq, conn, turns, added>>

SweepNext ==
    \/ Pass
    \/ \E o \in Owners : Index(FALSE, o)
    \/ \E o \in Owners, sc \in RawStartingScores : AddPlayer(FALSE, o, "x", sc)
    \/ \E o \in Owners : StartGame(FALSE, o)

SweepSpec == Init /\ [][SweepNext]_vars

----------------------------------------------------------------------------
(* Concurrent requests of one owner: connection c runs a turn handler one  *)
(* transaction at a time, and other requests are served in between.        *)

\* a new request is served on the lowest-numbered connection not in use
Free(c) ==
    /\ conn[c].pc = "idle"
    /\ \A d \in Conns : d < c => conn[d].pc # "idle"

\* the columns of the fetched rows that the rest of a turn handler reads
Columns(plist) ==
    [i \in 1..Len(plist) |-> [id |-> plist[i].id, name |-> plist[i].name]]

InFlight(c, pc, owner_id, acting, plist) ==
    conn' = [conn EXCEPT ![c] = [pc |-> pc, owner_id |-> owner_id,
                                 acting |-> acting, plist |-> Columns(plist)]]

\* update_score_route: lines 367-389, through the commit of update_score
RouteBegin(c, o, player_id, raw_delta) ==
    /\ Free(c)
    /\ \E b \in {update_score_route_begin(DB, o, player_id, raw_delta, now)} :
        /\ Store(b)
        /\ IF b.go THEN InFlight(c, "read", o, b.acting, <<>>) ELSE UNCHANGED conn
    /\ UNCHANGED <<now, turns>>

\* update_score_route: line 390, a read outside any transaction
RouteRead(c) ==
    /\ conn[c].pc = "read"
    /\ InFlight(c, "persist", conn[c].owner_id, conn[c].acting,
                get_players_for_owner(DB, conn[c].owner_id))
    /\ UNCHANGED <<players, owner_sessions, seq, now, turns, added>>

\* update_turn_score: lines 442-465, through the commit of update_score
TurnBegin(c, o, raw_delta) ==
    /\ Free(c)
    /\ \E b \in {update_turn_score_begin(DB, o, raw_delta, now)} :
        /\ Store(b)
        /\ IF b.go THEN InFlight(c, "persist", o, b.acting, b.plist) ELSE UNCHANGED conn
    /\ UNCHANGED <<now, turns>>

\* both handlers: the second transaction (lines 391-396, 470-475)
Persist(c) ==
    /\ conn[c].pc = "persist"
    /\ \E r \in {persist_next_player(DB, conn[c].owner_id, conn[c].plist, conn[c].acting)} :
        Store(r)
    /\ conn' = [conn EXCEPT ![c] = Idle]
    /\ UNCHANGED <<now, turns>>

\* the owner whose tabs send requests at the same time
ConcOwner == "a"

ConcNext ==
    \/ Index(FALSE, ConcOwner)
    \/ \E n \in RawNames(ConcOwner), sc \in RawStartingScores :
          AddPlayer(FALSE, ConcOwner, n, sc)
    \/ StartGame(FALSE, ConcOwner)
    \/ EndGame(FALSE, ConcOwner)
    \/ \E id \in PlayerIds : DeletePlayer(FALSE, ConcOwner, id)
    \/ ResetScores(FALSE, ConcOwner)
    \/ \E c \in Conns, id \in PlayerIds, d \in RawDeltas :
          RouteBegin(c, ConcOwner, id, d)
    \/ \E c \in Conns : RouteRead(c)
    \/ \E c \in Conns, d \in RawDeltas : TurnBegin(c, ConcOwner, d)
    \/ \E c \in Conns : Persist(c)

ConcSpec == Init /\ [][ConcNext]_vars

----------------------------------------------------------------------------
(* Concurrent requests of one owner while the clock advances: a session    *)
(* can expire between the two transactions of a turn handler, and the      *)
(* requests of another owner run the sweep in between as well.             *)

\* the owner whose requests only pass by
OtherOwner == "b"

ExpiryNext ==
    \/ Tick
    \/ Index(FALSE, OtherOwner)
    \/ Index(FALSE, ConcOwner)
    \/ \E n \in {"x", " y"} : AddPlayer(FALSE, ConcOwner, n, "0")
    \/ StartGame(FALSE, ConcOwner)
    \/ EndGame(FALSE, ConcOwner)
    \/ \E id \in PlayerIds : DeletePlayer(FALSE, ConcOwner, id)
    \/ ResetScores(FALSE, ConcOwner)
    \/ \E c \in Conns, id \in PlayerIds : RouteBegin(c, ConcOwner, id, "1")
    \/ \E c \in Conns : RouteRead(c)
    \/ \E c \in Conns : TurnBegin(c, ConcOwner, "1")
    \/ \E c \in Conns : Persist(c)

ExpirySpec == Init /\ [][ExpiryNext]_vars

----------------------------------------------------------------------------
(* Vocabulary of the properties.  A property about an operation is stated  *)
(* in every reachable state, of the reply the handler gives there and of    *)
(* the datastore After that reply.                                          *)

PlayersIn(db, o) ==
    {p \in db.players : p.owner_id = o}

PlayersOf(o) ==
    PlayersIn(DB, o)

IdsOf(o) ==
    {p.id : p \in PlayersOf(o)}

HasSession(o) ==
    o \in DOMAIN owner_sessions

Started(o) ==
    HasSession(o) /\ owner_sessions[o].game_started

\* the owner's session has been inactive for longer than the TTL
Expired(o) ==
    HasSession(o) /\ now - owner_sessions[o].last_seen_at > GAME_TTL_SECONDS

\* everything a datastore holds for an owner: player rows and session row
RowsIn(db, o) ==
    <<PlayersIn(db, o), {db.owner_sessions[x] : x \in {o} \cap DOMAIN db.owner_sessions}>>

\* the game state of an owner; an owner without a row has the defaults
GameIn(db, o) ==
    IF o \in DOMAIN db.owner_sessions
    THEN <<db.owner_sessions[o].game_started, db.owner_sessions[o].current_player_id>>
    ELSE <<FALSE, None>>

GameOf(o) ==
    GameIn(DB, o)

CurrentIn(db, o) ==
    GameIn(db, o)[2]

CurrentOf(o) ==
    CurrentIn(DB, o)

\* the replies to every addPlayer and removePlayer owner o can send now
EditReplies(o) ==
    {add_player(DB, o, n, sc, now) : n \in RawNames(o), sc \in RawStartingScores}
        \cup {delete_player(DB, o, id, now) : id \in PlayerIds}

\* the replies to every request owner o can send now
Replies(o) ==
    {index(DB, o, now), start_game(DB, o, now), end_game(DB, o, now),
     reset_scores(DB, o, now)}
        \cup EditReplies(o)
        \cup {update_score_route(DB, o, id, d, now) : id \in PlayerIds, d \in RawDeltas}
        \cup {update_turn_score(DB, o, d, now) : d \in RawDeltas}

\* the id after p in ascending order, wrapping to the lowest
Follower(ids, p) ==
    IF \E q \in ids : q > p
    THEN CHOOSE q \in ids : q > p /\ \A r \in ids : r > p => q <= r
    ELSE CHOOSE q \in ids : \A r \in ids : q <= r

Lowest(ids) ==
    CHOOSE q \in ids : \A r \in ids : q <= r

ScoreIn(db, id) ==
    (CHOOSE p \in db.players : p.id = id).score

\* the raw deltas that parse, with their values
ParsedDeltas ==
    {<<"-1", -1>>, <<"1", 1>>}

Turned ==
    {"Updated.", "Updated. Next."}

----------------------------------------------------------------------------
(* C1: of two concurrent takeTurn requests of one owner that find the same *)
(* current player P, at most one applies its delta to P and advances the   *)
(* turn from P.  A request in flight has applied its delta to its acting   *)
(* player and has not yet advanced the turn; so no two requests of an      *)
(* owner with several players are in flight for the same acting player.    *)
C1_OneTurnFromP ==
    \A c1, c2 \in Conns :
        (/\ c1 # c2
         /\ conn[c1].pc # "idle" /\ conn[c2].pc # "idle"
         /\ conn[c1].owner_id = conn[c2].owner_id
         /\ Cardinality(PlayersOf(conn[c1].owner_id)) >= 2)
        => conn[c1].acting # conn[c2].acting

(* C2, as claimed: no request of owner A, with the sweep and the touch it  *)
(* runs first, changes any row of another owner B (players, last-active     *)
(* timestamp, game-started flag, current player).                           *)
C2_NoOtherOwnerChanged ==
    \A A \in Owners : \A r \in Replies(A) : \A B \in Owners \ {A} :
        RowsIn(After(r), B) = RowsIn(DB, B)

(* C2, amended: a request of owner A leaves every row of another owner B   *)
(* unchanged, unless B has been inactive for longer than the TTL, and then  *)
(* A's sweep removes all of B's players and B's session row.               *)
C2_IsolationExceptSweep ==
    \A A \in Owners : \A r \in Replies(A) : \A B \in Owners \ {A} :
        \/ RowsIn(After(r), B) = RowsIn(DB, B)
        \/ Expired(B) /\ RowsIn(After(r), B) = <<{}, {}>>

\* owner "b" has a started game with a scored player and has expired, and
\* owner "a", with players of its own, is active: a's next request sweeps b
C2_Witness ==
    /\ Expired("b") /\ Started("b")
    /\ \E p \in PlayersOf("b") : p.score = 1
    /\ HasSession("a") /\ ~Expired("a") /\ PlayersOf("a") # {}
    /\ RowsIn(After(index(DB, "a", now)), "b") = <<{}, {}>>

(* C3: requests served one at a time leave every owner session row with   *)
(* game_started = false with a null current-player reference.              *)
C3_NotStartedNoCurrent ==
    \A o \in DOMAIN owner_sessions :
        ~owner_sessions[o].game_started
            => owner_sessions[o].current_player_id = None

\* owner "a" has a session row and two players and no game in progress,
\* next to a started game of "b"
C3_Witness ==
    /\ HasSession("a") /\ ~Started("a")
    /\ owner_sessions["a"].current_player_id = None
    /\ Cardinality(PlayersOf("a")) = 2
    /\ Started("b") /\ PlayersOf("b") # {}

(* C4: requests served one at a time leave every owner that has a started  *)
(* game and at least one player with a current-player reference that is    *)
(* the id of one of that owner's players.                                   *)
C4_CurrentResolves ==
    \A o \in DOMAIN owner_sessions :
        (owner_sessions[o].game_started /\ PlayersOf(o) # {})
            => owner_sessions[o].current_player_id \in IdsOf(o)

\* the first player was removed before the game started, and the turn has
\* moved on to the last player
C4_Witness ==
    /\ Started("a") /\ IdsOf("a") = {2, 3}
    /\ owner_sessions["a"].current_player_id = 3
    /\ ScoreIn(DB, 2) = 1

(* C5: a successful current-mode takeTurn with delta d, when the current   *)
(* player reference resolves to P, adds exactly d to P's score, leaves      *)
(* every other player's score and the set of players unchanged, and moves   *)
(* the current reference to the player after P in ascending id order,       *)
(* wrapping from the highest id to the lowest.                              *)
C5_TurnAddsDeltaAndAdvances ==
    \A o \in Owners : \A d \in ParsedDeltas :
        LET r == update_turn_score(DB, o, d[1], now)
            P == CurrentOf(o)
            db == After(r)
        IN  (r.flash \in Turned /\ P \in IdsOf(o))
                => /\ r.commit
                   /\ {p.id : p \in PlayersIn(db, o)} = IdsOf(o)
                   /\ Cardinality(PlayersIn(db, o)) = Cardinality(PlayersOf(o))
                   /\ ScoreIn(db, P) = ScoreIn(DB, P) + d[2]
                   /\ \A q \in IdsOf(o) \ {P} : ScoreIn(db, q) = ScoreIn(DB, q)
                   /\ CurrentIn(db, o) = Follower(IdsOf(o), P)
                   /\ db.owner_sessions[o].game_started

\* three players, the turn is with the highest id: a turn for +1 succeeds,
\* and the reference wraps to the lowest id
C5_Witness ==
    /\ Started("a") /\ IdsOf("a") = {1, 2, 3}
    /\ CurrentOf("a") = 3
    /\ LET r == update_turn_score(DB, "a", "1", now)
       IN  /\ r.flash \in Turned
           /\ CurrentIn(After(r), "a") = 1
           /\ ScoreIn(After(r), 3) = ScoreIn(DB, 3) + 1

(* C6: with N >= 1 players and a started game, N consecutive successful    *)
(* takeTurn operations with no other operation of the owner in between      *)
(* make each player the acting player exactly once, and bring the current   *)
(* reference back to the value it had before the first of them.             *)
C6_RoundRobin ==
    LET N == Cardinality(PlayersOf(LogOwner))
        round == LastN(turns[LogOwner], N)
    IN  (N >= 1 /\ Len(turns[LogOwner]) >= N)
            => /\ {round[i].actor : i \in 1..N} = IdsOf(LogOwner)
               /\ CurrentOf(LogOwner) = round[1].before

\* a full round of three turns that started at the middle player
C6_Witness ==
    /\ Cardinality(PlayersOf(LogOwner)) = 3
    /\ Len(turns[LogOwner]) = 3
    /\ turns[LogOwner][1].actor = 2
    /\ CurrentOf(LogOwner) = 2

(* C7: a successful startGame, when the owner has at least one player,     *)
(* sets game_started to true and the current reference to the player with   *)
(* the smallest id, whatever the names and scores.                          *)
C7_StartPicksLowestId ==
    \A o \in Owners :
        LET r == start_game(DB, o, now)
            db == After(r)
        IN  (r.flash = "Game started." /\ PlayersOf(o) # {})
                => /\ r.commit
                   /\ db.owner_sessions[o].game_started
                   /\ CurrentIn(db, o) = Lowest(IdsOf(o))
                   /\ PlayersIn(db, o) = PlayersOf(o)

\* the smallest id is neither the first name nor the highest score
C7_Witness ==
    /\ ~Started("a") /\ IdsOf("a") = {2, 3}
    /\ \E p, q \in PlayersOf("a") :
          p.id = 2 /\ q.id = 3 /\ p.name = "z" /\ q.name = "x" /\ q.score > p.score
    /\ LET r == start_game(DB, "a", now)
       IN  r.flash = "Game started." /\ CurrentIn(After(r), "a") = 2

\* an addPlayer or removePlayer reply that was rejected and changed neither
\* the owner's players nor its game state
RejectedUnchanged(r, o) ==
    /\ r.flash \notin {"Added player", "Removed"}
    /\ PlayersIn(After(r), o) = PlayersOf(o)
    /\ GameIn(After(r), o) = GameOf(o)

(* C8, as claimed: while game_started is true, every addPlayer and         *)
(* removePlayer of the owner is rejected and leaves the set of players,     *)
(* every score, game_started and the current reference unchanged.           *)
C8_NoEditWhileStarted ==
    \A o \in Owners :
        Started(o) => \A r \in EditReplies(o) : RejectedUnchanged(r, o)

(* C8, amended: while game_started is true and the owner's session has not *)
(* expired, every addPlayer and removePlayer of the owner is rejected and   *)
(* leaves the set of players, every score, game_started and the current     *)
(* reference unchanged.                                                     *)
C8_NoEditWhileStartedAndActive ==
    \A o \in Owners :
        (Started(o) /\ ~Expired(o))
            => \A r \in EditReplies(o) : RejectedUnchanged(r, o)

\* a started, active game of two players, with an id left for a new player:
\* adding a new name and removing an existing player are both refused
C8_Witness ==
    /\ Started("a") /\ ~Expired("a")
    /\ IdsOf("a") = {1, 2} /\ seq = 2
    /\ add_player(DB, "a", "z ", "0", now).flash
          = "Cannot add players after the game has started."
    /\ delete_player(DB, "a", 1, now).flash
          = "Cannot remove players after the game has started."

\* the session row and players of an owner never seen before time t
BrandNew(db, o, r) ==
    /\ r.commit
          => /\ o \in DOMAIN db.owner_sessions
             /\ db.owner_sessions[o].last_seen_at = now
             /\ \A p \in PlayersIn(db, o) : p.id > seq
             /\ Cardinality(PlayersIn(db, o)) <= 1
    /\ r.flash \notin Turned \cup {"Game started.", "Removed",
                                  "Cannot add players after the game has started.",
                                  "Cannot remove players after the game has started.",
                                  "That player already exists.",
                                  "It is not that player's turn."}

(* C9: when an owner's session has expired, the next request of that owner *)
(* sees a brand-new owner, whatever game state and players the owner had:   *)
(* the view is empty, not started and without a current player, no request  *)
(* finds a player or a started game, and the datastore after it holds a     *)
(* fresh session row and none of the owner's earlier players.               *)
C9_ExpiredOwnerIsNew ==
    \A o \in Owners :
        Expired(o)
            => /\ index(DB, o, now).view = View(<<>>, FALSE, None)
               /\ index(DB, o, now).commit
               /\ GameIn(After(index(DB, o, now)), o) = <<FALSE, None>>
               /\ \A r \in Replies(o) : BrandNew(After(r), o, r)

\* an expired owner with a started game of two players, one with a score
C9_Witness ==
    /\ Expired("a") /\ Started("a")
    /\ Cardinality(PlayersOf("a")) = 2
    /\ CurrentOf("a") \in IdsOf("a")
    /\ \E p \in PlayersOf("a") : p.score = 1
    /\ PlayersIn(After(index(DB, "a", now)), "a") = {}

\* the ids and names of a set of player rows
Roster(ps) ==
    {<<p.id, p.name>> : p \in ps}

\* resetScores zeroed every score of o and kept the players and game state
ResetOnly(r, o) ==
    /\ r.commit
    /\ \A p \in PlayersIn(After(r), o) : p.score = 0
    /\ Roster(PlayersIn(After(r), o)) = Roster(PlayersOf(o))
    /\ GameIn(After(r), o) = GameOf(o)

(* C10, as claimed: resetScores sets every score of the owner's players to *)
(* 0 and leaves game_started, the current reference and the set of players  *)
(* unchanged, whether game_started is true or false.                        *)
C10_ResetKeepsGame ==
    \A o \in Owners : ResetOnly(reset_scores(DB, o, now), o)

(* C10, amended: resetScores by an owner whose session has not expired     *)
(* sets every score of the owner's players to 0 and leaves game_started,    *)
(* the current reference and the set of players unchanged, whether          *)
(* game_started is true or false.                                           *)
C10_ResetKeepsActiveGame ==
    \A o \in Owners : ~Expired(o) => ResetOnly(reset_scores(DB, o, now), o)

\* one active owner in a started game and one whose game is not started,
\* each with a player whose score is not 0
C10_Witness ==
    /\ Started("a") /\ ~Expired("a") /\ CurrentOf("a") = 2
    /\ \E p \in PlayersOf("a") : p.score = 1
    /\ HasSession("b") /\ ~Started("b") /\ ~Expired("b")
    /\ \E p \in PlayersOf("b") : p.score = 1
    /\ \A p \in PlayersIn(After(reset_scores(DB, "a", now)), "a") : p.score = 0

\* the name fields sent in the properties of addPlayer: two of them are
\* trimmed to the same name
NameFields ==
    {"x", " x", " y", "z "}

\* the starting-score fields that parse
ParsedStartingScores ==
    {sc \in RawStartingScores : int(sc).ok}

HasName(o, name) ==
    \E p \in PlayersOf(o) : p.name = name

\* addPlayer was refused as a duplicate and the owner's rows are as before
Conflict(r, o) ==
    /\ r.flash = "That player already exists."
    /\ PlayersIn(After(r), o) = PlayersOf(o)

\* addPlayer gave owner o a new row with this name and score, under an id that
\* no row of the table had
AddedSeparately(r, o, name, score) ==
    /\ r.flash = "Added player" /\ r.commit
    /\ \E p \in PlayersIn(After(r), o) :
          /\ p.name = name /\ p.score = score
          /\ \A q \in players : q.id # p.id
    /\ Cardinality(PlayersIn(After(r), o)) = 1 + Cardinality(PlayersIn(After(r), o) \cap players)

\* a name another owner has and o does not, o's game not being started
NameOfAnother(o, name) ==
    /\ ~Started(o) /\ ~HasName(o, name)
    /\ \E A \in Owners \ {o} : HasName(A, name)

(* C11, as claimed: addPlayer with a name that, trimmed, the owner already *)
(* has is rejected as a conflict and leaves the owner's rows and scores     *)
(* unchanged; addPlayer with a name that another owner has, by an owner     *)
(* whose game is not started, succeeds and creates a separate player with   *)
(* an id of its own.                                                        *)
C11_DuplicateIsConflict ==
    \A o \in Owners : \A n \in NameFields : \A sc \in ParsedStartingScores :
        LET r == add_player(DB, o, n, sc, now)
        IN  /\ HasName(o, strip(n)) => Conflict(r, o)
            /\ NameOfAnother(o, strip(n))
                  => AddedSeparately(r, o, strip(n), int(sc).value)

(* C11, amended: addPlayer with a name that, trimmed, the owner already    *)
(* has, by an owner whose game is not started and whose session has not     *)
(* expired, is rejected as a conflict and leaves the owner's rows and       *)
(* scores unchanged; addPlayer with a name that another owner has, by an    *)
(* owner whose game is not started, succeeds and creates a separate player  *)
(* with an id of its own.                                                   *)
C11_DuplicateIsConflictWhenEditable ==
    \A o \in Owners : \A n \in NameFields : \A sc \in ParsedStartingScores :
        LET r == add_player(DB, o, n, sc, now)
        IN  /\ (HasName(o, strip(n)) /\ ~Started(o) /\ ~Expired(o))
                  => Conflict(r, o)
            /\ NameOfAnother(o, strip(n))
                  => AddedSeparately(r, o, strip(n), int(sc).value)

\* owner "a" has "x" and "y" and sends " x" again; owner "b", without players,
\* sends "x" and gets a player of its own
C11_Witness ==
    /\ HasName("a", "x") /\ HasName("a", "y") /\ ~Started("a") /\ ~Expired("a")
    /\ HasSession("b") /\ PlayersOf("b") = {} /\ ~Started("b")
    /\ Conflict(add_player(DB, "a", " x", "1", now), "a")
    /\ AddedSeparately(add_player(DB, "b", "x", "1", now), "b", "x", 1)

(* C12: startGame for an owner with zero players is rejected and leaves   *)
(* game_started = false and current_player = null for that owner.          *)
C12_StartWithoutPlayers ==
    \A o \in Owners :
        PlayersOf(o) = {}
            => LET r == start_game(DB, o, now)
               IN  /\ r.flash = "Add at least one player before starting the game."
                   /\ GameIn(After(r), o) = <<FALSE, None>>
                   /\ PlayersIn(After(r), o) = {}

\* an owner that had a game and removed its only player, next to an owner
\* that can start
C12_Witness ==
    /\ HasSession("a") /\ PlayersOf("a") = {} /\ seq >= 2
    /\ start_game(DB, "a", now).flash = "Add at least one player before starting the game."
    /\ start_game(DB, "b", now).flash = "Game started."

\* the TTLs for which the sweep's comparison is evaluated
Ttls ==
    {0, 1, GAME_TTL_SECONDS - 1, GAME_TTL_SECONDS, GAME_TTL_SECONDS + 1}

\* the sweep at this instant removes the owner's session row and players
Swept(o) ==
    /\ o \notin DOMAIN prune_expired_games(DB, now).owner_sessions
    /\ PlayersIn(prune_expired_games(DB, now), o) = {}

\* the sweep at this instant leaves the owner's session row and players
Kept(o) ==
    RowsIn(prune_expired_games(DB, now), o) = RowsIn(DB, o)

(* C13, as claimed: the sweeper treats an owner as expired exactly when    *)
(* now - last_seen_at >= ttl; at now - last_seen_at = ttl the owner is      *)
(* expired.                                                                 *)
C13_ExpiredFromTTL ==
    \A o \in DOMAIN owner_sessions :
        /\ IF now - owner_sessions[o].last_seen_at >= GAME_TTL_SECONDS
           THEN Swept(o) ELSE Kept(o)
        /\ \A ttl \in Ttls :
              o \in ExpiredOwners(DB, now - ttl)
                  <=> now - owner_sessions[o].last_seen_at >= ttl

(* C13, amended: the sweeper treats an owner as expired exactly when       *)
(* now - last_seen_at > ttl; at now - last_seen_at = ttl the owner is not   *)
(* expired.                                                                 *)
C13_ExpiredAfterTTL ==
    \A o \in DOMAIN owner_sessions :
        /\ IF now - owner_sessions[o].last_seen_at > GAME_TTL_SECONDS
           THEN Swept(o) ELSE Kept(o)
        /\ \A ttl \in Ttls :
              o \in ExpiredOwners(DB, now - ttl)
                  <=> now - owner_sessions[o].last_seen_at > ttl

\* owner "a" was last seen exactly one TTL ago and is kept, owner "b" one
\* second earlier and is swept; both have a player
C13_Witness ==
    /\ HasSession("a") /\ HasSession("b")
    /\ now - owner_sessions["a"].last_seen_at = GAME_TTL_SECONDS
    /\ now - owner_sessions["b"].last_seen_at = GAME_TTL_SECONDS + 1
    /\ PlayersOf("a") # {} /\ PlayersOf("b") # {}
    /\ Kept("a") /\ Swept("b")

\* when the row that holds this id was inserted: its place in the log
AddedAt(id) ==
    CHOOSE i \in 1..Len(added) : added[i] = id /\ \A j \in (i + 1)..Len(added) : added[j] # id

\* the player of o inserted first, and the one inserted next after player P
\* (the first again after the last)
FirstAdded(o) ==
    CHOOSE x \in IdsOf(o) : \A y \in IdsOf(o) : AddedAt(x) <= AddedAt(y)

NextAdded(o, P) ==
    IF \E y \in IdsOf(o) : AddedAt(y) > AddedAt(P)
    THEN CHOOSE x \in IdsOf(o) :
             /\ AddedAt(x) > AddedAt(P)
             /\ \A y \in IdsOf(o) : AddedAt(y) > AddedAt(P) => AddedAt(x) <= AddedAt(y)
    ELSE FirstAdded(o)

(* C14: turn rotation follows insertion order.  Of two players of an owner *)
(* the one added first comes first in the list that startGame and takeTurn  *)
(* use: startGame gives the turn to the player added first, takeTurn to     *)
(* the player added next after the current one, whatever the names and      *)
(* scores and whatever was removed and added before; and a newly added      *)
(* player gets an id above every id issued earlier, removed rows and other  *)
(* owners' rows included.                                                   *)
C14_RotationIsInsertionOrder ==
    /\ \A p \in players : \E i \in 1..Len(added) : added[i] = p.id
    /\ \A o \in Owners :
        LET plist == get_players_for_owner(DB, o)
            s == start_game(DB, o, now)
        IN  /\ \A i, j \in 1..Len(plist) :
                  AddedAt(plist[i].id) < AddedAt(plist[j].id) => i < j
            /\ (s.flash = "Game started." /\ PlayersOf(o) # {})
                  => CurrentIn(After(s), o) = FirstAdded(o)
            /\ \A d \in ParsedDeltas :
                  LET r == update_turn_score(DB, o, d[1], now)
                  IN  (r.flash \in Turned /\ CurrentOf(o) \in IdsOf(o))
                          => CurrentIn(After(r), o) = NextAdded(o, CurrentOf(o))
            /\ \A n \in NameFields : \A sc \in ParsedStartingScores :
                  LET r == add_player(DB, o, n, sc, now)
                  IN  r.flash = "Added player"
                          => \A p \in PlayersIn(After(r), o) \ players :
                                 \A i \in 1..Len(added) : added[i] < p.id

\* owner "a" plays with the first and the third row inserted, the second one
\* is gone; the later player has the earlier name and the higher score, and
\* the turn is with it: the next turn goes back to the first
C14_Witness ==
    /\ added = <<1, 2, 3>> /\ IdsOf("a") = {1, 3}
    /\ \A p \in players : p.id # 2
    /\ \E p, q \in PlayersOf("a") :
          p.id = 1 /\ q.id = 3 /\ p.name = "z" /\ q.name = "x" /\ q.score > p.score
    /\ Started("a") /\ CurrentOf("a") = 3
    /\ CurrentIn(After(update_turn_score(DB, "a", "-1", now)), "a") = 1

(* C15: takeTurn is atomic for other requests.  No state that another     *)
(* request can read, or that stays if the handler stops between its steps,  *)
(* has the turn's delta added to the acting player's score while the        *)
(* owner's current-player reference still names the acting player from      *)
(* before the turn.  A request in flight has committed its delta and not    *)
(* yet advanced the turn; with two or more players the reference moves      *)
(* away from the acting player when the turn completes.                     *)
C15_TurnIsAtomic ==
    \A c \in Conns :
        (/\ conn[c].pc # "idle"
         /\ conn[c].acting \in IdsOf(conn[c].owner_id)
         /\ Cardinality(IdsOf(conn[c].owner_id)) >= 2)
            => CurrentOf(conn[c].owner_id) # conn[c].acting

(* C16: under any interleaving of a takeTurn request with endGame,         *)
(* removePlayer and startGame requests of the same owner, every committed   *)
(* state has: game_started = false implies current_player = null, and       *)
(* game_started = true with at least one player implies current_player      *)
(* names a player of that owner.                                            *)
C16_SessionInvariantsInterleaved ==
    \A o \in DOMAIN owner_sessions :
        /\ ~Started(o) => CurrentOf(o) = None
        /\ (Started(o) /\ PlayersOf(o) # {}) => CurrentOf(o) \in IdsOf(o)

\* the datastore as a handler of owner o reads it, after its sweep and touch
Seen(o) ==
    touch_owner_session(prune_expired_games(DB, now), o, now)

\* the request was refused with this message, and no score and no game state
\* of the owner changed
Refused(r, o, flash) ==
    /\ r.flash = flash
    /\ PlayersIn(After(r), o) = PlayersOf(o)
    /\ GameIn(After(r), o) = GameOf(o)

(* C17: takeTurn for a named player is rejected, with no score and no      *)
(* current-player reference changed, in these cases, checked in this        *)
(* order: the game is not started (NotStarted); else the named id is not    *)
(* the current-player reference (WrongTurn); else the named id has no       *)
(* player row of the owner (NotFound).                                      *)
C17_NamedTurnRejections ==
    \A o \in Owners : \A id \in PlayerIds : \A d \in ParsedDeltas :
        LET r == update_score_route(DB, o, id, d[1], now)
            started == GameIn(Seen(o), o)[1]
            current == GameIn(Seen(o), o)[2]
            found == \E p \in PlayersIn(Seen(o), o) : p.id = id
        IN  /\ ~started
                => Refused(r, o, "Start the game before taking turns.")
            /\ (started /\ current # id)
                => Refused(r, o, "It is not that player's turn.")
            /\ (started /\ current = id /\ ~found)
                => Refused(r, o, "Player not found.")

\* the reference of a started game names a removed player (left by an
\* interleaved turn): a turn for that id finds no player, a turn for an
\* existing player is out of turn, and an owner without a game has not started
C17_Witness ==
    /\ Started("a") /\ CurrentOf("a") \in PlayerIds \ IdsOf("a")
    /\ \E id \in IdsOf("a") :
          update_score_route(DB, "a", id, "1", now).flash = "It is not that player's turn."
    /\ update_score_route(DB, "a", CurrentOf("a"), "1", now).flash = "Player not found."
    /\ update_score_route(DB, "b", 1, "1", now).flash = "Start the game before taking turns."

\* the messages of the requests refused before the handler opens the datastore
Malformed ==
    {"Player name cannot be empty.", "Starting score must be a whole number.",
     "Score change must be a whole number."}

(* C18: every request of an owner that reaches the engine, accepted or     *)
(* rejected (game in progress, not started, wrong turn, player not found,   *)
(* duplicate name, no players), leaves the owner's stored last-active       *)
(* timestamp equal to the time of the request; and the touch itself does    *)
(* not change game_started or current_player.                               *)
C18_EveryRequestTouches ==
    \A o \in Owners :
        /\ \A r \in Replies(o) :
              r.flash \notin Malformed
                  => /\ o \in DOMAIN After(r).owner_sessions
                     /\ After(r).owner_sessions[o].last_seen_at = now
        /\ GameIn(Seen(o), o) = GameIn(prune_expired_games(DB, now), o)

(* C19: takeTurn for the current player, when the game is started and the *)
(* current-player reference is null or names no player of the owner, adds   *)
(* the delta to the owner's lowest-id player and sets the current player    *)
(* to the one after it in ascending id order; when the owner has no         *)
(* players it is rejected and changes nothing.                              *)
C19_TurnFallsBackToFirst ==
    \A o \in Owners : \A d \in ParsedDeltas :
        LET r == update_turn_score(DB, o, d[1], now)
            db == After(r)
            started == GameIn(Seen(o), o)[1]
            current == GameIn(Seen(o), o)[2]
            ids == {p.id : p \in PlayersIn(Seen(o), o)}
        IN  /\ (started /\ ids # {} /\ current \notin ids)
                => /\ r.commit /\ r.flash \in Turned
                   /\ {p.id : p \in PlayersIn(db, o)} = ids
                   /\ ScoreIn(db, Lowest(ids)) = ScoreIn(DB, Lowest(ids)) + d[2]
                   /\ \A q \in ids \ {Lowest(ids)} : ScoreIn(db, q) = ScoreIn(DB, q)
                   /\ CurrentIn(db, o) = Follower(ids, Lowest(ids))
                   /\ GameIn(db, o)[1]
            /\ ids = {}
                => /\ r.flash \in {"Start the game before taking turns.", "No players found."}
                   /\ PlayersIn(db, o) = PlayersOf(o)
                   /\ GameIn(db, o) = GameOf(o)

\* a started game of two players whose reference names a removed player (left
\* by an interleaved turn): the turn goes to the lowest id and then on to the
\* other player; an owner without players is refused
C19_Witness ==
    /\ Started("a") /\ Cardinality(IdsOf("a")) = 2
    /\ CurrentOf("a") \in PlayerIds \ IdsOf("a")
    /\ ScoreIn(DB, Lowest(IdsOf("a"))) = 0
    /\ LET r == update_turn_score(DB, "a", "1", now)
       IN  /\ r.flash = "Updated. Next."
           /\ ScoreIn(After(r), Lowest(IdsOf("a"))) = 1
           /\ CurrentIn(After(r), "a") \in IdsOf("a") \ {Lowest(IdsOf("a"))}
    /\ ~update_turn_score(DB, "b", "1", now).commit

\* startGame was accepted: the game is started, the turn is with the owner's
\* lowest id, and the owner's players and scores are as before
Restarted(r, o) ==
    /\ r.flash = "Game started." /\ r.commit
    /\ GameIn(After(r), o) = <<TRUE, Lowest(IdsOf(o))>>
    /\ PlayersIn(After(r), o) = PlayersOf(o)

(* C20, as claimed: startGame while the owner's game is already started is *)
(* not rejected: it keeps game_started = true and sets the current player   *)
(* to the owner's lowest-id player, whoever's turn it was, and leaves all   *)
(* scores unchanged.                                                        *)
C20_RestartResetsTurn ==
    \A o \in Owners :
        Started(o) => Restarted(start_game(DB, o, now), o)

(* C20, amended: startGame while the owner's game is already started and   *)
(* the owner's session has not expired is not rejected: it keeps            *)
(* game_started = true and sets the current player to the owner's           *)
(* lowest-id player, whoever's turn it was, and leaves all scores           *)
(* unchanged.                                                               *)
C20_RestartResetsTurnWhenActive ==
    \A o \in Owners :
        (Started(o) /\ ~Expired(o)) => Restarted(start_game(DB, o, now), o)

\* a started game of three players with a score on the board and the turn at
\* the last player: startGame moves the turn back to the first
C20_Witness ==
    /\ Started("a") /\ ~Expired("a")
    /\ IdsOf("a") = {1, 2, 3} /\ CurrentOf("a") = 3
    /\ \E p \in PlayersOf("a") : p.score = 1
    /\ Restarted(start_game(DB, "a", now), "a")
    /\ CurrentIn(After(start_game(DB, "a", now)), "a") = 1

(* C21: in every committed state, an owner whose game_started is true has  *)
(* at least one player: no sequence or interleaving of addPlayer,           *)
(* removePlayer, startGame, endGame, the two transactions of a turn,        *)
(* resetScores and the sweep reaches a started game with an empty player    *)
(* list.                                                                    *)
C21_StartedHasPlayers ==
    \A o \in Owners :
        Started(o) => PlayersOf(o) # {}

\* a started game of one player after the clock has advanced, with a turn of
\* the owner between its two transactions and the other owner's requests
\* served: removing the only player is refused
C21_Witness ==
    /\ Started(ConcOwner) /\ Cardinality(PlayersOf(ConcOwner)) = 1
    /\ now = GAME_TTL_SECONDS
    /\ HasSession(OtherOwner)
    /\ \E c \in Conns : conn[c].pc = "persist" /\ conn[c].owner_id = ConcOwner
    /\ \A id \in IdsOf(ConcOwner) :
          PlayersIn(After(delete_player(DB, ConcOwner, id, now)), ConcOwner)
              = PlayersOf(ConcOwner)

\* every player row of db belongs to an owner with a session row, which is
\* how the sweep finds the players to delete
NoOrphans(db) ==
    \A p \in db.players : p.owner_id \in DOMAIN db.owner_sessions

\* the instants from now on at which a sweep may run
SweepTimes ==
    {now + k * GAME_TTL_SECONDS : k \in 0..MaxTime}

(* C22: in every committed state, every player row's owner has an          *)
(* owner-session row (no orphan players), so every player remains           *)
(* reachable by the sweeper: a sweep never leaves players behind for an     *)
(* owner whose session row it deleted, and addPlayer never commits a player *)
(* without a session row for its owner.                                     *)
C22_NoOrphanPlayers ==
    /\ NoOrphans(DB)
    /\ \A t \in SweepTimes :
          \A o \in DOMAIN owner_sessions :
              o \notin DOMAIN prune_expired_games(DB, t).owner_sessions
                  => PlayersIn(prune_expired_games(DB, t), o) = {}
    /\ \A o \in Owners :
          \A n \in RawNames(o), sc \in RawStartingScores :
          add_player(DB, o, n, sc, now).commit
              => NoOrphans(add_player(DB, o, n, sc, now).db)

\* the owner's session has expired with players stored and a turn between
\* its two transactions: the sweep deletes the session row together with
\* the players, and an addPlayer at this instant commits its one player
\* with a new session row
C22_Witness ==
    /\ Expired(ConcOwner) /\ PlayersOf(ConcOwner) # {}
    /\ \E c \in Conns : conn[c].pc = "persist" /\ conn[c].owner_id = ConcOwner
    /\ Swept(ConcOwner)
    /\ add_player(DB, ConcOwner, "x", "0", now).commit
    /\ Cardinality(PlayersIn(add_player(DB, ConcOwner, "x", "0", now).db, ConcOwner)) = 1
    /\ add_player(DB, ConcOwner, "x", "0", now).db.owner_sessions[ConcOwner]
          = NewSession(now)

====
